---- MODULE Spec2Model ----
(***************************************************************************)
(* A model of the SimplyCompete integration:                               *)
(*   - fetch_participants.py : SimplyCompeteAPI.fetch_all_participants,    *)
(*     the pagination loop (specification SpecFetch);                      *)
(*   - sync_competitions.py  : get_cookies, _refresh_cookies_with_         *)
(*     playwright, get_competitions, and app.py's /competitions/sync       *)
(*     endpoint (specification Spec);                                      *)
(*   - sync_competitions.py  : save_competitions on the competitions table *)
(*     (specification SpecSave).                                           *)
(***************************************************************************)
EXTENDS Integers, Sequences, FiniteSets, TLC

(***************************************************************************)
(* Program constants.                                                      *)
(***************************************************************************)
\* fetch_participants.py:57  max_pages = 100  # Safety limit
max_pages == 100
\* sync_competitions.py:142  max_retries = 2
max_retries == 2

(***************************************************************************)
(* Bounds of the model.                                                    *)
(***************************************************************************)
\* items per page of the remote data set: 1..MaxPageSize
MaxPageSize == 2
\* the scenarios with the spec's page size of 50 end at a page <= MaxBigStop
MaxBigStop == 2
\* events in one response of the event list endpoint: 0..MaxEvents
MaxEvents == 2
\* records in one direct call of save_competitions: 0..MaxBatch
MaxBatch == 2
\* direct calls of save_competitions are explored while the table has at most MaxRows rows
MaxRows == 3
\* the method is called twice on data sets that end at a page <= MaxTwiceStop,
\* and on the ones the page bound cuts short
MaxTwiceStop == 4

VARIABLES
    \* ---- fetch_participants.py ----
    remote,            \* the remote data set: what each page index answers
    session_cookies,   \* self.session.cookies after __init__
    page_no,           \* fetch_all_participants: page_no
    all_participants,  \* fetch_all_participants: all_participants
    fpc,               \* position in fetch_all_participants
    fexit,             \* the branch through which the while loop was left
    requested,         \* history: the pageNo of every session.get issued
    fresult,           \* the value returned by fetch_all_participants
    prev_run,          \* what the call before this one requested and returned
    \* ---- sync_competitions.py, app.py ----
    active,            \* the invocations of /competitions/sync that run
    cookie_file,       \* the content of cookies.json
    mint,              \* how many credential sets the browser has been issued
    gc,                \* per invocation: position and locals of get_competitions
    hist,              \* per invocation: history of what it did
    db,                \* the competitions table of app.db, in rowid order
    \* ---- direct calls of save_competitions ----
    save_last,         \* the argument of the last call
    save_committed,    \* whether the last call reached conn.commit()
    save_repeated,     \* whether the last call repeated a committed call's argument
    save_tick          \* flips at every call

fetchVars == <<remote, session_cookies, page_no, all_participants, fpc,
               fexit, requested, fresult, prev_run>>

syncVars == <<active, cookie_file, mint, gc, hist, db>>

saveVars == <<save_last, save_committed, save_repeated, save_tick>>

vars == <<fetchVars, syncVars, saveVars>>

(***************************************************************************)
(* JSON values, as json.loads / response.json() produce them.              *)
(***************************************************************************)
JNull == [j |-> "null"]
JNum == [j |-> "num"]
JStr(s) == [j |-> "str", s |-> s]
JList(s) == [j |-> "list", items |-> s]
JObj(f) == [j |-> "obj", fields |-> f]
NoFields == [k \in {} |-> JNull]

IsObj(v) == v.j = "obj"
IsList(v) == v.j = "list"

\* Python truthiness of a parsed JSON value (JNum stands for the number 7)
Truthy(v) ==
    CASE v.j = "null" -> FALSE
      [] v.j = "num" -> TRUE
      [] v.j = "str" -> v.s # ""
      [] v.j = "list" -> Len(v.items) > 0
      [] v.j = "obj" -> DOMAIN v.fields # {}

\* dict.get(key, default) on a value known to be a dict
DictGet(v, key, default) ==
    IF key \in DOMAIN v.fields THEN v.fields[key] ELSE default

(***************************************************************************)
(* HTTP responses of the remote service to the paginator.                  *)
(***************************************************************************)
\* session.get raised requests.RequestException (connection error, timeout)
TransportError == [t |-> "exc", status |-> 0, parses |-> FALSE, body |-> JNull]
\* a response with a status and a body that response.json() can parse
Http(status, body) == [t |-> "http", status |-> status, parses |-> TRUE, body |-> body]
\* a response whose body is not JSON
HttpBadJson(status) == [t |-> "http", status |-> status, parses |-> FALSE, body |-> JNull]

\* requests.Response.ok: status_code < 400
ResponseOk(r) == r.status < 400

\* a success body carrying `items` at data.data.participantList
PageBody(pl) ==
    JObj("data" :> JObj("data" :> JObj("participantList" :> pl)))
OkPage(items) == Http(200, PageBody(JList(items)))

\* the items of page p of the remote data set, n of them
PageItems(p, n) == [i \in 1..n |-> [page |-> p, idx |-> i]]

(***************************************************************************)
(* The invocations of /competitions/sync, and the state they start from.   *)
(***************************************************************************)
Procs == {1, 2}

\* a Python dict of cookies: a function from cookie names to values
EmptyDict == [n \in {} |-> 0]

\* cookies.json does not exist
FileAbsent == [kind |-> "absent", entries |-> <<>>]

\* get_competitions has not been called
IdleCall ==
    [pc |-> "idle", attempt |-> 0, cookies |-> EmptyDict, browser |-> "none",
     page_cookies |-> <<>>, exit |-> "none", result |-> <<>>,
     response |-> [code |-> 0, success |-> FALSE, message |-> "", count |-> 0,
                   competitions |-> <<>>]]

NoHistory ==
    [sent |-> <<>>, responses |-> <<>>, removed |-> 0, loads |-> <<>>,
     solves |-> <<>>, launched |-> 0, closed |-> 0]

\* no invocation runs: the state of the sync side in the other specifications
SyncIdle ==
    /\ active = {}
    /\ cookie_file = FileAbsent
    /\ mint = 0
    /\ gc = [p \in Procs |-> IdleCall]
    /\ hist = [p \in Procs |-> NoHistory]
    /\ db = <<>>

\* save_competitions has not been called directly
SaveIdle ==
    /\ save_last = <<>>
    /\ save_committed = FALSE
    /\ save_repeated = FALSE
    /\ save_tick = 0

\* fetch_all_participants has not been called before on this object
NoRun == [taken |-> FALSE, result |-> <<>>, requested |-> <<>>]

\* the paginator is not running: its state in the other specifications
FetchIdle ==
    /\ remote = [stopAt |-> 0, sz |-> 0, terminal |-> TransportError]
    /\ session_cookies = [cookieconsent_dismissed |-> "", cf_clearance |-> ""]
    /\ page_no = 0
    /\ all_participants = <<>>
    /\ fpc = "idle"
    /\ fexit = "none"
    /\ requested = <<>>
    /\ fresult = <<>>
    /\ prev_run = NoRun

(***************************************************************************)
(* The remote data set seen by the paginator: pages 0..stopAt-1 carry      *)
(* items, page stopAt (and every later one) answers `terminal`.            *)
(* stopAt = max_pages is a data set with more pages than the loop reads.   *)
(***************************************************************************)
\* size of page p under size pattern sz: 0 = varying with p, n > 0 = always n
SizeOf(sz, p) == IF sz = 0 THEN (p % MaxPageSize) + 1 ELSE sz

Terminals ==
    { OkPage(<<>>),                                        \* participantList: []
      Http(200, JObj(NoFields)),                           \* no 'data'
      Http(200, JObj("data" :> JObj(NoFields))),           \* no data.data
      Http(200, JObj("data" :> JObj("data" :> JObj(NoFields)))),  \* no participantList
      Http(200, PageBody(JNull)),                          \* participantList: null
      Http(200, PageBody(JNum)),                           \* participantList: 7
      Http(200, JObj("data" :> JNull)),                    \* data: null
      Http(200, JObj("data" :> JObj("data" :> JNull))),    \* data.data: null
      Http(200, JObj("data" :> JList(<<>>))),              \* data: []
      Http(200, JList(<<>>)),                              \* body: []
      HttpBadJson(200),                                    \* body is not JSON
      Http(403, JNull), HttpBadJson(403),                  \* Cloudflare rejection
      Http(500, JNull),
      TransportError }

\* The page size of the spec's concrete scenario: pages of 50, 50, 0 items.
ScenarioSizes == {50}

Scenarios ==
    [stopAt : 0..max_pages, sz : 0..MaxPageSize, terminal : Terminals]
    \cup [stopAt : 0..MaxBigStop, sz : ScenarioSizes, terminal : Terminals]

\* what the remote service answers to the request for page p
RemoteResponse(p) ==
    IF p < remote.stopAt
    THEN OkPage(PageItems(p, SizeOf(remote.sz, p)))
    ELSE remote.terminal

(***************************************************************************)
(* SimplyCompeteAPI.__init__ / _setup_cookies                              *)
(***************************************************************************)
\* os.getenv('SIMPLYCOMPETE_CF_CLEARANCE'): "" stands for unset or empty
EnvClearances == {"", "env-token"}

SetupCookies(cf_clearance) ==
    IF cf_clearance # ""
    THEN [cookieconsent_dismissed |-> "yes", cf_clearance |-> cf_clearance]
    ELSE [cookieconsent_dismissed |-> "", cf_clearance |-> ""]

(***************************************************************************)
(* SimplyCompeteAPI.fetch_all_participants                                 *)
(***************************************************************************)
LoopConditionInclusive(p) == p <= max_pages

\* while page_no < max_pages
LoopCondition(p) == p < max_pages

\* data.get('data', {}).get('data', {}).get('participantList', []):
\* .get on a value that is not a dict raises AttributeError
ExtractParticipantList(data) ==
    IF ~IsObj(data) THEN [raised |-> TRUE, pl |-> JNull]
    ELSE LET d1 == DictGet(data, "data", JObj(NoFields)) IN
      IF ~IsObj(d1) THEN [raised |-> TRUE, pl |-> JNull]
      ELSE LET d2 == DictGet(d1, "data", JObj(NoFields)) IN
        IF ~IsObj(d2) THEN [raised |-> TRUE, pl |-> JNull]
        ELSE [raised |-> FALSE, pl |-> DictGet(d2, "participantList", JList(<<>>))]

ExtendPrepending(acc, items) == items \o acc

ExtendReplacing(acc, items) == items

\* all_participants.extend(participant_list)
Extend(acc, items) == acc \o items

NextPageSkipping(p) == p + 2

\* line 102: page_no += 1
NextPage(p) == p + 1

\* line 115: return all_participants, whatever branch left the loop
ReturnValue(items, branch) == items

\* The outcome of one pass through the loop body for response r:
\* which branch is taken, and the participant list when one was extracted.
\*   "not_ok"     line 81-89   break
\*   "network"    line 104-106 break (requests.RequestException)
\*   "json"       line 107-109 break (json.JSONDecodeError)
\*   "unexpected" line 110-112 break (any other Exception)
\*   "exhausted"  line 96-98   break
\*   "accumulate" line 100-102
\* response.json() on a body that is not JSON raises a JSONDecodeError that
\* is a requests.RequestException in requests >= 2.27 and a plain
\* json.JSONDecodeError before: either handler may run.
PageOutcomes(r) ==
    IF r.t = "exc" THEN {[branch |-> "network", pl |-> <<>>]}
    ELSE IF ~ResponseOk(r) THEN {[branch |-> "not_ok", pl |-> <<>>]}
    ELSE IF ~r.parses
    THEN {[branch |-> "network", pl |-> <<>>], [branch |-> "json", pl |-> <<>>]}
    ELSE LET e == ExtractParticipantList(r.body) IN
      IF e.raised THEN {[branch |-> "unexpected", pl |-> <<>>]}
      ELSE IF ~Truthy(e.pl) THEN {[branch |-> "exhausted", pl |-> <<>>]}
      ELSE IF ~IsList(e.pl) THEN {[branch |-> "unexpected", pl |-> <<>>]}
      ELSE {[branch |-> "accumulate", pl |-> e.pl.items]}

AfterBranchRetrying(branch) == IF branch = "network" THEN "loop" ELSE "return"

\* every branch that does not accumulate ends in `break`: the loop is left
AfterBranch(branch) == "return"

StaleList == all_participants

\* line 55: all_participants = [], a new list at every call
NewList == <<>>

\* lines 55-59: the call starts
FetchStart ==
    /\ fpc = "idle"
    /\ all_participants' = NewList
    /\ page_no' = 0
    /\ fpc' = "loop"
    /\ UNCHANGED <<remote, session_cookies, fexit, requested, fresult, prev_run>>
    /\ UNCHANGED <<syncVars, saveVars>>

\* lines 61-102: one page fetched, a non-empty list accumulated
FetchAccumulate ==
    /\ fpc = "loop"
    /\ LoopCondition(page_no)
    /\ \E o \in PageOutcomes(RemoteResponse(page_no)) :
         /\ o.branch = "accumulate"
         /\ all_participants' = Extend(all_participants, o.pl)
    /\ requested' = Append(requested, page_no)
    /\ page_no' = NextPage(page_no)
    /\ UNCHANGED <<remote, session_cookies, fpc, fexit, fresult, prev_run>>
    /\ UNCHANGED <<syncVars, saveVars>>

\* lines 61-98 and 104-112: one page fetched, the loop left through a break
FetchBreak ==
    /\ fpc = "loop"
    /\ LoopCondition(page_no)
    /\ \E o \in PageOutcomes(RemoteResponse(page_no)) :
         /\ o.branch # "accumulate"
         /\ fexit' = o.branch
         /\ fpc' = AfterBranch(o.branch)
    /\ requested' = Append(requested, page_no)
    /\ UNCHANGED <<remote, session_cookies, page_no, all_participants, fresult,
                   prev_run>>
    /\ UNCHANGED <<syncVars, saveVars>>

\* line 61: the loop condition is false
SafetyStop ==
    /\ fpc = "loop"
    /\ ~LoopCondition(page_no)
    /\ fexit' = "limit"
    /\ fpc' = "return"
    /\ UNCHANGED <<remote, session_cookies, page_no, all_participants,
                   requested, fresult, prev_run>>
    /\ UNCHANGED <<syncVars, saveVars>>

\* lines 114-115
FetchReturn ==
    /\ fpc = "return"
    /\ fresult' = ReturnValue(all_participants, fexit)
    /\ fpc' = "done"
    /\ UNCHANGED <<remote, session_cookies, page_no, all_participants,
                   fexit, requested, prev_run>>
    /\ UNCHANGED <<syncVars, saveVars>>

\* lines 44-59: the method is called once more on the same object, with the
\* same arguments, against the same remote data set; the session, its
\* cookies included, is the one __init__ built
FetchAgain ==
    /\ fpc = "done"
    /\ ~prev_run.taken
    /\ prev_run' = [taken |-> TRUE, result |-> fresult, requested |-> requested]
    /\ fpc' = "idle"
    /\ fexit' = "none"
    /\ requested' = <<>>
    /\ fresult' = <<>>
    /\ UNCHANGED <<remote, session_cookies, page_no, all_participants>>
    /\ UNCHANGED <<syncVars, saveVars>>

InitFetch ==
    /\ remote \in Scenarios
    /\ session_cookies \in {SetupCookies(e) : e \in EnvClearances}
    /\ page_no = 0
    /\ all_participants = <<>>
    /\ fpc = "idle"
    /\ fexit = "none"
    /\ requested = <<>>
    /\ fresult = <<>>
    /\ prev_run = NoRun
    /\ SyncIdle
    /\ SaveIdle

NextFetch ==
    \/ FetchStart
    \/ FetchAccumulate
    \/ FetchBreak
    \/ SafetyStop
    \/ FetchReturn

SpecFetch == InitFetch /\ [][NextFetch]_vars

\* the remote data sets against which the method is called twice
TwiceScenarios ==
    {s \in Scenarios : s.stopAt <= MaxTwiceStop \/ s.stopAt = max_pages}

InitFetchTwice ==
    /\ remote \in TwiceScenarios
    /\ session_cookies \in {SetupCookies(e) : e \in EnvClearances}
    /\ page_no = 0
    /\ all_participants = <<>>
    /\ fpc = "idle"
    /\ fexit = "none"
    /\ requested = <<>>
    /\ fresult = <<>>
    /\ prev_run = NoRun
    /\ SyncIdle
    /\ SaveIdle

\* one object, one remote data set, and the method called twice
NextFetchTwice ==
    \/ FetchStart
    \/ FetchAccumulate
    \/ FetchBreak
    \/ SafetyStop
    \/ FetchReturn
    \/ FetchAgain

SpecFetchTwice == InitFetchTwice /\ [][NextFetchTwice]_vars

(***************************************************************************)
(* Properties of fetch_all_participants (under SpecFetch).                 *)
(***************************************************************************)
\* the concatenation of the item lists of pages 0..k-1 of the remote data set
RECURSIVE ConcatPages(_)
ConcatPages(k) ==
    IF k = 0 THEN <<>>
    ELSE ConcatPages(k - 1) \o PageItems(k - 1, SizeOf(remote.sz, k - 1))

\* the page indices 0..k-1 in increasing order
Indices(k) == [i \in 1..k |-> i - 1]

\* C1 - Pagination termination: when pages 0..k-1 are non-empty and page k
\* (k < max_pages) is a successful response with an empty item list, the call
\* returns exactly the concatenation of pages 0..k-1 in page order, leaves the
\* loop through the "no more participants" break, and has issued exactly the
\* k+1 requests for pages 0..k; pages of 50, 50, 0 items give 100 items after
\* 3 requests.
C1_PaginationTermination ==
    (fpc = "done" /\ remote.stopAt < max_pages /\ remote.terminal = OkPage(<<>>))
    => /\ fresult = ConcatPages(remote.stopAt)
       /\ fexit = "exhausted"
       /\ requested = Indices(remote.stopAt + 1)
       /\ (remote.sz = 50 /\ remote.stopAt = 2)
            => (Len(fresult) = 100 /\ requested = <<0, 1, 2>>)

C1_Witness ==
    /\ fpc = "done"
    /\ remote.stopAt = 2 /\ remote.sz = 50 /\ remote.terminal = OkPage(<<>>)
    /\ Len(fresult) = 100
    /\ fexit = "exhausted"

\* C2 - Safety bound: page index max_pages is never requested, and when every
\* page is non-empty the call stops after exactly max_pages requests, for the
\* indices 0..max_pages-1, and returns the concatenation of those pages.
C2_SafetyBound ==
    /\ \A i \in DOMAIN requested : requested[i] < max_pages
    /\ (fpc = "done" /\ remote.stopAt >= max_pages)
       => /\ requested = Indices(max_pages)
          /\ fexit = "limit"
          /\ fresult = ConcatPages(max_pages)

C2_Witness ==
    /\ fpc = "done"
    /\ remote.stopAt = max_pages
    /\ Len(requested) = max_pages
    /\ fexit = "limit"

\* the responses that are a failed request: a transport exception, a non-OK
\* status, a body that is not JSON
FailedResponse(r) == r.t = "exc" \/ ~ResponseOk(r) \/ ~r.parses

\* C3 - Partial results on failure: when pages 0..k-1 are non-empty and the
\* request for page k fails, no page index is requested twice and none above
\* k, and the call returns (through one of its handlers, without raising)
\* exactly the concatenation of pages 0..k-1, the empty list when k = 0.
C3_PartialResultsOnFailure ==
    (remote.stopAt < max_pages /\ FailedResponse(remote.terminal))
    => /\ Len(requested) <= remote.stopAt + 1
       /\ requested = Indices(Len(requested))
       /\ fpc = "done"
          => /\ fresult = ConcatPages(remote.stopAt)
             /\ requested = Indices(remote.stopAt + 1)
             /\ fexit \in {"not_ok", "network", "json"}
             /\ remote.stopAt = 0 => fresult = <<>>

C3_Witness ==
    /\ fpc = "done"
    /\ remote.stopAt = 3
    /\ remote.terminal = TransportError
    /\ fexit = "network"
    /\ Len(fresult) > 0
    /\ Len(requested) = 4

(***************************************************************************)
(* cookies.json: what get_cookies can find on disk.                        *)
(***************************************************************************)
\* one entry of the JSON document, as the loop of get_cookies meets it:
\*   "cookie" a mapping with 'name' and 'value'
\*   "nokey"  a mapping without 'name' or without 'value'
\*   "scalar" not a mapping: a number, a string, a list
Cookie(name, value) == [t |-> "cookie", name |-> name, value |-> value]
NoKeyEntry == [t |-> "nokey", name |-> "", value |-> 0]
ScalarEntry == [t |-> "scalar", name |-> "", value |-> 0]

\* the document: kind "list" iterates over its entries, kind "object" over
\* its keys (strings), kind "scalar" (a number, true, null) is not iterable,
\* kind "notjson" makes json.load raise JSONDecodeError
JsonListFile(entries) == [kind |-> "list", entries |-> entries]
JsonObjectFile(keys) == [kind |-> "object", entries |-> keys]
JsonScalarFile == [kind |-> "scalar", entries |-> <<>>]
NotJsonFile == [kind |-> "notjson", entries |-> <<>>]

\* the credential sets on disk when the endpoint is called: value 0 marks
\* the stored generation, the browser issues generations 1, 2, ...
InitFiles ==
    { FileAbsent, NotJsonFile, JsonScalarFile,
      JsonObjectFile(<<>>), JsonObjectFile(<<ScalarEntry>>),
      JsonListFile(<<>>),
      JsonListFile(<<Cookie("cf_clearance", 0), Cookie("session", 0)>>),
      JsonListFile(<<Cookie("session", 0)>>),
      JsonListFile(<<NoKeyEntry>>),
      JsonListFile(<<ScalarEntry>>),
      JsonListFile(<<Cookie("cf_clearance", 0), NoKeyEntry>>),
      JsonListFile(<<Cookie("cf_clearance", 0), ScalarEntry>>) }

(***************************************************************************)
(* get_cookies: the load step, lines 19-34.                                *)
(***************************************************************************)
\* lines 25-27 and 86-88: for cookie in cookies: d[cookie['name']] = cookie['value']
\* cookie['name'] raises KeyError on a mapping without the key and TypeError
\* on anything that is not a mapping; the loop stops at the first exception.
RECURSIVE ConvertCookies(_, _)
ConvertCookies(entries, d) ==
    IF entries = <<>> THEN [exc |-> "none", dict |-> d]
    ELSE LET c == Head(entries) IN
      CASE c.t = "cookie" -> ConvertCookies(Tail(entries), (c.name :> c.value) @@ d)
        [] c.t = "nokey" -> [exc |-> "KeyError", dict |-> d]
        [] OTHER -> [exc |-> "TypeError", dict |-> d]

\* lines 21-27: json.load and the conversion loop
LoadCookies(file) ==
    CASE file.kind = "absent" -> [exc |-> "FileNotFoundError", dict |-> EmptyDict]
      [] file.kind = "notjson" -> [exc |-> "JSONDecodeError", dict |-> EmptyDict]
      [] file.kind = "scalar" -> [exc |-> "TypeError", dict |-> EmptyDict]
      [] OTHER -> ConvertCookies(file.entries, EmptyDict)

\* line 33: except (json.JSONDecodeError, KeyError)
CaughtByGetCookies(exc) == exc \in {"JSONDecodeError", "KeyError"}

\* lines 20-34: what the load step does with the file it read
\*   "loaded"  line 32: the dict is returned
\*   "refresh" falls through to line 38
\*   "raised"  the exception leaves get_cookies
LoadStep(file) ==
    LET l == LoadCookies(file) IN
    IF l.exc = "none"
    THEN IF "cf_clearance" \in DOMAIN l.dict
         THEN [outcome |-> "loaded", dict |-> l.dict]
         ELSE [outcome |-> "refresh", dict |-> EmptyDict]
    ELSE IF CaughtByGetCookies(l.exc)
         THEN [outcome |-> "refresh", dict |-> EmptyDict]
         ELSE [outcome |-> "raised", dict |-> EmptyDict]

(***************************************************************************)
(* _refresh_cookies_with_playwright: what the browser context may hold     *)
(* after the challenge page, for generation g.                             *)
(***************************************************************************)
MintChoices(g) ==
    { <<>>,
      <<Cookie("session", g)>>,
      <<Cookie("cf_clearance", g), Cookie("session", g)>> }

(***************************************************************************)
(* The event list endpoint: what requests.get may answer.                  *)
(***************************************************************************)
EvA == JObj([id |-> JStr("a"), name |-> JStr("n1"), startDate |-> JStr("d1")])
EvB == JObj([id |-> JStr("b"), name |-> JStr("n2"), date |-> JStr("d2")])
EvNoId == JObj([name |-> JStr("n1"), startDate |-> JStr("d1")])
EvEmptyName == JObj([id |-> JStr("a"), name |-> JStr("")])
Events == {EvA, EvB, EvNoId, EvEmptyName, JNull}

EventLists == UNION {[1..n -> Events] : n \in 0..MaxEvents}

SyncBodies ==
    {JObj([events |-> JList(l)]) : l \in EventLists}
    \cup { JObj([data |-> JList(<<EvA>>)]),
           JObj([content |-> JList(<<EvB>>)]),
           JObj([events |-> JNull]),
           JObj(NoFields),
           JList(<<EvA>>) }

SyncResponses ==
    {TransportError, Http(403, JNull), Http(500, JNull), HttpBadJson(200)}
    \cup {Http(200, b) : b \in SyncBodies}

(***************************************************************************)
(* get_competitions: lines 157-199, what is done with a response.          *)
(***************************************************************************)
\* lines 175-182: one event; event.get raises AttributeError on a non-dict
Competition(event) ==
    [id |-> DictGet(event, "id", JNull),
     name |-> DictGet(event, "name", JNull),
     startDate |-> DictGet(event, "startDate", DictGet(event, "date", JNull))]

\* line 181: if competition["id"] and competition["name"]
HasRequiredFields(c) == Truthy(c.id) /\ Truthy(c.name)

\* lines 173-185: the loop over events
RECURSIVE ExtractList(_, _)
ExtractList(events, acc) ==
    IF events = <<>> THEN [raised |-> FALSE, comps |-> acc]
    ELSE LET e == Head(events) IN
      IF ~IsObj(e) THEN [raised |-> TRUE, comps |-> <<>>]
      ELSE LET c == Competition(e) IN
        ExtractList(Tail(events),
                    IF HasRequiredFields(c) THEN Append(acc, c) ELSE acc)

\* line 170: data.get('events', data.get('data', data.get('content', data)))
LocateEvents(data) ==
    DictGet(data, "events", DictGet(data, "data", DictGet(data, "content", data)))

\* lines 166-188 on a parsed body: the return taken
\*   "ok"                   line 185
\*   "unexpected_structure" line 188
\*   "unexpected_error"     line 199 (AttributeError)
ExtractCompetitions(data) ==
    IF ~IsObj(data) THEN [exit |-> "unexpected_error", result |-> <<>>]
    ELSE LET events == LocateEvents(data) IN
      IF ~IsList(events) THEN [exit |-> "unexpected_structure", result |-> <<>>]
      ELSE LET x == ExtractList(events.items, <<>>) IN
        IF x.raised THEN [exit |-> "unexpected_error", result |-> <<>>]
        ELSE [exit |-> "ok", result |-> x.comps]

RequestErrorHandlerNoRetry(attempt) ==
    {[next |-> "return", exit |-> "request_error", result |-> <<>>]}

\* lines 190-193: except requests.exceptions.RequestException:
\*                    if attempt == max_retries - 1: return []
\* otherwise control falls out of the try statement into the next iteration
RequestErrorHandler(attempt) ==
    IF attempt = max_retries - 1
    THEN {[next |-> "return", exit |-> "request_error", result |-> <<>>]}
    ELSE {[next |-> "continue", exit |-> "none", result |-> <<>>]}

\* lines 155-199: what follows response r on iteration `attempt`
\*   next "forbidden": line 157-162, the file is removed and the loop continues
\*   next "continue" : the next iteration
\*   next "return"   : the call returns `result` through `exit`
\* raise_for_status raises HTTPError, a RequestException, for 400 <= status.
\* response.json() on a body that is not JSON raises a JSONDecodeError that
\* is a requests.RequestException in requests >= 2.27 (lines 190-193 run) and
\* a plain json.JSONDecodeError before (lines 194-196 run).
RequestOutcomes(r, attempt) ==
    IF r.t = "exc" THEN RequestErrorHandler(attempt)
    ELSE IF r.status = 403
    THEN {[next |-> "forbidden", exit |-> "none", result |-> <<>>]}
    ELSE IF r.status >= 400 THEN RequestErrorHandler(attempt)
    ELSE IF ~r.parses
    THEN RequestErrorHandler(attempt)
         \cup {[next |-> "return", exit |-> "json_error", result |-> <<>>]}
    ELSE LET x == ExtractCompetitions(r.body) IN
         {[next |-> "return", exit |-> x.exit, result |-> x.result]}

(***************************************************************************)
(* save_competitions: the competitions table                               *)
(*   CREATE TABLE competitions (id TEXT PRIMARY KEY, name TEXT,            *)
(*                              start_date TEXT)                           *)
(* as the sequence of its rows in rowid order.                             *)
(***************************************************************************)
\* sqlite3 binds None, str, int, float, bytes; a list or a dict raises
\* sqlite3.ProgrammingError (InterfaceError before Python 3.11), a sqlite3.Error
Bindable(v) == v.j \in {"null", "str", "num"}

\* the value stored in a TEXT column: None is NULL, a number is converted to
\* its text (JNum, the number 7, becomes '7')
Bind(v) == IF v.j = "num" THEN JStr("7") ELSE v

\* line 231: (comp.get('id'), comp.get('name'), comp.get('startDate'))
RowOf(comp) ==
    [id |-> Bind(comp.id), name |-> Bind(comp.name), start_date |-> Bind(comp.startDate)]

InsertAlways(table, row) == Append(table, row)

\* lines 228-231: INSERT OR REPLACE on the PRIMARY KEY id: a row with an equal
\* id is deleted and the new row inserted with a new rowid. id is not an
\* INTEGER PRIMARY KEY and not declared NOT NULL, so SQLite accepts NULL ids,
\* and NULL is distinct from every value, NULL included: no conflict.
InsertOrReplace(table, row) ==
    IF row.id = JNull
    THEN Append(table, row)
    ELSE LET Other(r) == r.id # row.id IN Append(SelectSeq(table, Other), row)

\* lines 227-231: the loop of executes
RECURSIVE ExecuteAll(_, _)
ExecuteAll(table, comps) ==
    IF comps = <<>> THEN table
    ELSE ExecuteAll(InsertOrReplace(table, RowOf(Head(comps))), Tail(comps))

\* whether every execute of the batch binds its parameters
BatchBinds(comps) ==
    \A i \in DOMAIN comps :
        Bindable(comps[i].id) /\ Bindable(comps[i].name) /\ Bindable(comps[i].startDate)

\* lines 211-240: the table after save_competitions(comps). dbok: no
\* sqlite3.Error from connect, execute or commit (a locked or unwritable
\* app.db). On a sqlite3.Error (lines 236-237) commit is not reached and
\* conn.close() discards the batch's inserts: the table is unchanged.
Committed(comps, dbok) == dbok /\ BatchBinds(comps)
save_competitions(table, comps, dbok) ==
    IF Committed(comps, dbok) THEN ExecuteAll(table, comps) ELSE table

\* the records handed to a direct call of save_competitions
SaveRecords ==
    { [id |-> JStr("a"), name |-> JStr("n1"), startDate |-> JStr("d1")],
      [id |-> JStr("a"), name |-> JStr("n2"), startDate |-> JStr("d1")],
      [id |-> JStr("7"), name |-> JStr("n1"), startDate |-> JStr("d1")],
      [id |-> JNum, name |-> JStr("n1"), startDate |-> JStr("d1")],
      [id |-> JNull, name |-> JStr("n1"), startDate |-> JStr("d1")],
      [id |-> JStr("a"), name |-> JList(<<>>), startDate |-> JStr("d1")] }

Batches == UNION {[1..n -> SaveRecords] : n \in 0..MaxBatch}

\* one direct call save_competitions(comps)
SaveCall ==
    \E comps \in Batches, dbok \in BOOLEAN :
        /\ db' = save_competitions(db, comps, dbok)
        /\ Len(db') <= MaxRows
        /\ save_repeated' = (save_tick # 0 /\ save_committed /\ comps = save_last)
        /\ save_last' = comps
        /\ save_committed' = Committed(comps, dbok)
        /\ save_tick' = IF save_tick = 1 THEN 2 ELSE 1
        /\ UNCHANGED <<active, cookie_file, mint, gc, hist>>
        /\ UNCHANGED fetchVars

InitSave ==
    /\ FetchIdle
    /\ active = {}
    /\ cookie_file = FileAbsent
    /\ mint = 0
    /\ gc = [p \in Procs |-> IdleCall]
    /\ hist = [p \in Procs |-> NoHistory]
    /\ db = <<>>
    /\ SaveIdle

NextSave == SaveCall

SpecSave == InitSave /\ [][NextSave]_vars

(***************************************************************************)
(* get_competitions and the /competitions/sync endpoint, as invocation p.  *)
(* Positions (gc[p].pc):                                                   *)
(*   idle -> loop -> exists -> load -> [launch -> page -> navigate ->      *)
(*   save ->] check -> request -> [remove_check -> remove ->] loop ...     *)
(*   -> returned -> done                                                   *)
(***************************************************************************)
\* get_competitions returns `result` through the return statement `exit`:
\*   "no_cookies" 150, "ok" 185, "unexpected_structure" 188,
\*   "request_error" 193, "json_error" 196, "unexpected_error" 199,
\*   "exhausted" 201
Return(g, exit, result) ==
    [g EXCEPT !.pc = "returned", !.exit = exit, !.result = result]

CatchUnexpectedMissing(g) == [g EXCEPT !.pc = "raised", !.exit = "raised"]

\* lines 197-199: except Exception: return [], around the whole loop body,
\* the call of get_cookies included
CatchUnexpected(g) == Return(g, "unexpected_error", <<>>)

NoCookiesNever(cookies) == FALSE

\* line 148: if not cookies
NoCookies(cookies) == cookies = EmptyDict

\* `continue`, or the end of the loop body: the next iteration
NextIteration(g) == [g EXCEPT !.pc = "loop", !.attempt = @ + 1]

\* one invocation of the solver as the history keeps it:
\*   "returned" line 98, "absorbed" line 102 (return {}), "raised" the
\*   exception left _refresh_cookies_with_playwright
Solve(outcome, stage, dict) == [outcome |-> outcome, stage |-> stage, dict |-> dict]

\* app.py lines 14-18 and sync_competitions.py line 142
SyncStart(p) ==
    /\ p \in active
    /\ gc[p].pc = "idle"
    /\ gc' = [gc EXCEPT ![p].pc = "loop", ![p].attempt = 0]
    /\ UNCHANGED <<active, cookie_file, mint, hist, db>>
    /\ UNCHANGED <<fetchVars, saveVars>>

\* line 143: for attempt in range(max_retries), an iteration begins
AttemptBegin(p) ==
    /\ gc[p].pc = "loop"
    /\ gc[p].attempt < max_retries
    /\ gc' = [gc EXCEPT ![p].pc = "exists"]
    /\ UNCHANGED <<active, cookie_file, mint, hist, db>>
    /\ UNCHANGED <<fetchVars, saveVars>>

\* lines 143 and 201: the range is exhausted
LoopExhausted(p) ==
    /\ gc[p].pc = "loop"
    /\ gc[p].attempt >= max_retries
    /\ gc' = [gc EXCEPT ![p] = Return(@, "exhausted", <<>>)]
    /\ UNCHANGED <<active, cookie_file, mint, hist, db>>
    /\ UNCHANGED <<fetchVars, saveVars>>

\* get_cookies line 19: os.path.exists(cookies_file)
CookiesExists(p) ==
    /\ gc[p].pc = "exists"
    /\ IF cookie_file.kind # "absent"
       THEN /\ gc' = [gc EXCEPT ![p].pc = "load"]
            /\ UNCHANGED hist
       ELSE /\ gc' = [gc EXCEPT ![p].pc = "launch"]
            /\ hist' = [hist EXCEPT ![p].loads =
                           Append(@, [file |-> cookie_file, outcome |-> "refresh"])]
    /\ UNCHANGED <<active, cookie_file, mint, db>>
    /\ UNCHANGED <<fetchVars, saveVars>>

\* get_cookies lines 20-38: open, json.load, the conversion, the check for
\* cf_clearance; an exception that line 33 does not catch leaves get_cookies
\* and reaches line 197 of get_competitions
CookiesLoad(p) ==
    /\ gc[p].pc = "load"
    /\ LET st == LoadStep(cookie_file) IN
       /\ hist' = [hist EXCEPT ![p].loads =
                      Append(@, [file |-> cookie_file, outcome |-> st.outcome])]
       /\ gc' = [gc EXCEPT ![p] =
                    CASE st.outcome = "loaded" ->
                           [@ EXCEPT !.pc = "check", !.cookies = st.dict]
                      [] st.outcome = "refresh" -> [@ EXCEPT !.pc = "launch"]
                      [] OTHER -> CatchUnexpected(@)]
    /\ UNCHANGED <<active, cookie_file, mint, db>>
    /\ UNCHANGED <<fetchVars, saveVars>>

\* _refresh_cookies_with_playwright lines 48-61: sync_playwright() and
\* chromium.launch, outside the try statement
SolverLaunch(p) ==
    /\ gc[p].pc = "launch"
    /\ \E ok \in BOOLEAN :
         IF ok
         THEN /\ gc' = [gc EXCEPT ![p].pc = "page", ![p].browser = "open"]
              /\ hist' = [hist EXCEPT ![p].launched = @ + 1]
         ELSE /\ gc' = [gc EXCEPT ![p] = CatchUnexpected(@)]
              /\ hist' = [hist EXCEPT ![p].solves =
                             Append(@, Solve("raised", "launch", EmptyDict))]
    /\ UNCHANGED <<active, cookie_file, mint, db>>
    /\ UNCHANGED <<fetchVars, saveVars>>

\* lines 63-68: browser.new_page and set_extra_http_headers, outside the try
\* statement: an exception leaves the function with the browser not closed
SolverPage(p) ==
    /\ gc[p].pc = "page"
    /\ \E ok \in BOOLEAN :
         IF ok
         THEN /\ gc' = [gc EXCEPT ![p].pc = "navigate"]
              /\ UNCHANGED hist
         ELSE /\ gc' = [gc EXCEPT ![p] = CatchUnexpected(@)]
              /\ hist' = [hist EXCEPT ![p].solves =
                             Append(@, Solve("raised", "page", EmptyDict))]
    /\ UNCHANGED <<active, cookie_file, mint, db>>
    /\ UNCHANGED <<fetchVars, saveVars>>

\* lines 70-79: goto, wait_for_timeout, context.cookies(); on an exception
\* lines 100-104: return {} and browser.close()
SolverNavigate(p) ==
    /\ gc[p].pc = "navigate"
    /\ \E ok \in BOOLEAN :
         IF ok
         THEN /\ \E c \in MintChoices(mint + 1) :
                    gc' = [gc EXCEPT ![p].pc = "save", ![p].page_cookies = c]
              /\ mint' = mint + 1
              /\ UNCHANGED hist
         ELSE /\ gc' = [gc EXCEPT ![p].pc = "check", ![p].cookies = EmptyDict,
                                  ![p].browser = "closed"]
              /\ hist' = [hist EXCEPT ![p].solves =
                             Append(@, Solve("absorbed", "navigate", EmptyDict)),
                                      ![p].closed = @ + 1]
              /\ UNCHANGED mint
    /\ UNCHANGED <<active, cookie_file, db>>
    /\ UNCHANGED <<fetchVars, saveVars>>

\* json.dump(cookies, f): the document written to cookies.json
Written(cookies) == JsonListFile(cookies)

\* lines 81-104: cookies.json is written, the cookies converted and
\* returned, the browser closed. When open or json.dump fails (lines
\* 100-104) the file is untouched or left truncated, and {} is returned.
SolverSave(p) ==
    /\ gc[p].pc = "save"
    /\ \E ok \in BOOLEAN :
         IF ok
         THEN LET d == ConvertCookies(gc[p].page_cookies, EmptyDict).dict IN
              /\ cookie_file' = Written(gc[p].page_cookies)
              /\ gc' = [gc EXCEPT ![p].pc = "check", ![p].cookies = d,
                                  ![p].browser = "closed"]
              /\ hist' = [hist EXCEPT ![p].solves =
                             Append(@, Solve("returned", "done", d)),
                                      ![p].closed = @ + 1]
         ELSE /\ cookie_file' \in {cookie_file, NotJsonFile}
              /\ gc' = [gc EXCEPT ![p].pc = "check", ![p].cookies = EmptyDict,
                                  ![p].browser = "closed"]
              /\ hist' = [hist EXCEPT ![p].solves =
                             Append(@, Solve("absorbed", "save", EmptyDict)),
                                      ![p].closed = @ + 1]
    /\ UNCHANGED <<active, mint, db>>
    /\ UNCHANGED <<fetchVars, saveVars>>

\* lines 146-150: cookies = get_cookies(); if not cookies: return []
CookiesCheck(p) ==
    /\ gc[p].pc = "check"
    /\ gc' = [gc EXCEPT ![p] =
                 IF NoCookies(@.cookies)
                 THEN Return(@, "no_cookies", <<>>)
                 ELSE [@ EXCEPT !.pc = "request"]]
    /\ UNCHANGED <<active, cookie_file, mint, hist, db>>
    /\ UNCHANGED <<fetchVars, saveVars>>

\* lines 155-199: requests.get with the cookies, and what is done with the
\* response, one of `responses`, up to the removal of the file on a 403
RequestOf(p, responses) ==
    /\ gc[p].pc = "request"
    /\ \E r \in responses :
         /\ hist' = [hist EXCEPT ![p].sent = Append(@, gc[p].cookies),
                                 ![p].responses = Append(@, r)]
         /\ \E o \in RequestOutcomes(r, gc[p].attempt) :
              gc' = [gc EXCEPT ![p] =
                        CASE o.next = "forbidden" -> [@ EXCEPT !.pc = "remove_check"]
                          [] o.next = "continue" -> NextIteration(@)
                          [] OTHER -> Return(@, o.exit, o.result)]
    /\ UNCHANGED <<active, cookie_file, mint, db>>
    /\ UNCHANGED <<fetchVars, saveVars>>

Request(p) == RequestOf(p, SyncResponses)

\* line 160: if os.path.exists("cookies.json")
RemoveCheck(p) ==
    /\ gc[p].pc = "remove_check"
    /\ gc' = [gc EXCEPT ![p] =
                 IF cookie_file.kind # "absent"
                 THEN [@ EXCEPT !.pc = "remove"]
                 ELSE NextIteration(@)]
    /\ UNCHANGED <<active, cookie_file, mint, hist, db>>
    /\ UNCHANGED <<fetchVars, saveVars>>

RemovedKeepsFile(file) == file

\* os.remove("cookies.json"): the file after it
Removed(file) == FileAbsent

\* lines 161-162: os.remove and continue; on a file that is gone os.remove
\* raises FileNotFoundError, which reaches line 197
Remove(p) ==
    /\ gc[p].pc = "remove"
    /\ IF cookie_file.kind # "absent"
       THEN /\ cookie_file' = Removed(cookie_file)
            /\ hist' = [hist EXCEPT ![p].removed = @ + 1]
            /\ gc' = [gc EXCEPT ![p] = NextIteration(@)]
       ELSE /\ gc' = [gc EXCEPT ![p] = CatchUnexpected(@)]
            /\ UNCHANGED <<cookie_file, hist>>
    /\ UNCHANGED <<active, mint, db>>
    /\ UNCHANGED <<fetchVars, saveVars>>

\* app.py lines 20-37: the JSON response of /competitions/sync
EndpointResponse(competitions) ==
    IF competitions = <<>>
    THEN [code |-> 404, success |-> FALSE,
          message |-> "No competitions found or API call failed",
          count |-> 0, competitions |-> <<>>]
    ELSE [code |-> 200, success |-> TRUE,
          message |-> "Successfully synced competitions",
          count |-> Len(competitions), competitions |-> competitions]

\* app.py lines 20-37: the endpoint answers, after save_competitions when
\* there are competitions
Respond(p) ==
    /\ gc[p].pc = "returned"
    /\ gc' = [gc EXCEPT ![p].pc = "done",
                        ![p].response = EndpointResponse(gc[p].result)]
    /\ IF gc[p].result = <<>>
       THEN UNCHANGED db
       ELSE \E dbok \in BOOLEAN : db' = save_competitions(db, gc[p].result, dbok)
    /\ UNCHANGED <<active, cookie_file, mint, hist>>
    /\ UNCHANGED <<fetchVars, saveVars>>

Init ==
    /\ FetchIdle
    /\ SaveIdle
    /\ active = {1}
    /\ cookie_file \in InitFiles
    /\ mint = 0
    /\ gc = [p \in Procs |-> IdleCall]
    /\ hist = [p \in Procs |-> NoHistory]
    /\ db = <<>>

Next ==
    \E p \in Procs :
        \/ SyncStart(p)
        \/ AttemptBegin(p)
        \/ LoopExhausted(p)
        \/ CookiesExists(p)
        \/ CookiesLoad(p)
        \/ SolverLaunch(p)
        \/ SolverPage(p)
        \/ SolverNavigate(p)
        \/ SolverSave(p)
        \/ CookiesCheck(p)
        \/ Request(p)
        \/ RemoveCheck(p)
        \/ Remove(p)
        \/ Respond(p)

Spec == Init /\ [][Next]_vars

(***************************************************************************)
(* Two invocations of /competitions/sync at once (app.py serves requests   *)
(* concurrently): both run get_competitions against the one cookies.json,  *)
(* their steps interleaved at the file operations and the HTTP calls.      *)
(***************************************************************************)
\* cookies.json when the two invocations start
ConcurrentFiles ==
    { FileAbsent,
      JsonListFile(<<Cookie("cf_clearance", 0), Cookie("session", 0)>>) }

\* what the event list endpoint answers to them
ConcurrentResponses ==
    { Http(403, JNull), TransportError,
      Http(200, JObj([events |-> JList(<<EvA>>)])) }

ConcurrentRequest(p) == RequestOf(p, ConcurrentResponses)

InitConcurrent ==
    /\ FetchIdle
    /\ SaveIdle
    /\ active = Procs
    /\ cookie_file \in ConcurrentFiles
    /\ mint = 0
    /\ gc = [p \in Procs |-> IdleCall]
    /\ hist = [p \in Procs |-> NoHistory]
    /\ db = <<>>

NextConcurrent ==
    \E p \in Procs :
        \/ SyncStart(p)
        \/ AttemptBegin(p)
        \/ LoopExhausted(p)
        \/ CookiesExists(p)
        \/ CookiesLoad(p)
        \/ SolverLaunch(p)
        \/ SolverPage(p)
        \/ SolverNavigate(p)
        \/ SolverSave(p)
        \/ CookiesCheck(p)
        \/ ConcurrentRequest(p)
        \/ RemoveCheck(p)
        \/ Remove(p)
        \/ Respond(p)

SpecConcurrent == InitConcurrent /\ [][NextConcurrent]_vars

(***************************************************************************)
(* Properties of get_competitions and of the endpoint (under Spec).        *)
(***************************************************************************)
\* get_competitions has returned
Returned(p) == gc[p].pc \in {"returned", "done"}

IsForbidden(r) == r.t = "http" /\ r.status = 403
IsTransportError(r) == r.t = "exc"

\* a 200 response whose body is {"events": [...]} with mappings as events
WellFormed(r) ==
    /\ r.t = "http" /\ r.status = 200 /\ r.parses
    /\ IsObj(r.body)
    /\ DOMAIN r.body.fields = {"events"}
    /\ IsList(r.body.fields["events"])
    /\ \A i \in DOMAIN r.body.fields["events"].items :
           IsObj(r.body.fields["events"].items[i])

\* the first attempt sent credentials loaded from cookies.json and got a 403
StoredRejected(p) ==
    /\ Len(hist[p].loads) >= 1
    /\ hist[p].loads[1].outcome = "loaded"
    /\ Len(hist[p].responses) >= 1
    /\ IsForbidden(hist[p].responses[1])

\* every cookie of the dict was issued by the browser during this run
Fresh(d) == \A n \in DOMAIN d : d[n] >= 1

\* C4 - Credential refresh on rejection: when the stored credential set is
\* answered 403 on the first attempt, the file is removed and the second
\* attempt, made whenever the solver returns a credential set, carries the
\* set the solver has just minted and not the rejected one; when that set
\* is accepted get_competitions succeeds after exactly 2 HTTP attempts.
C4_CredentialRefresh ==
    \A p \in Procs :
      StoredRejected(p) =>
        /\ gc[p].attempt >= 1 => hist[p].removed >= 1
        /\ Len(hist[p].sent) >= 2 =>
             /\ Len(hist[p].solves) = 1
             /\ hist[p].solves[1].outcome = "returned"
             /\ hist[p].sent[2] = hist[p].solves[1].dict
             /\ hist[p].sent[2] # hist[p].sent[1]
             /\ Fresh(hist[p].sent[2])
        /\ ( /\ Returned(p)
             /\ Len(hist[p].solves) = 1
             /\ hist[p].solves[1].outcome = "returned"
             /\ hist[p].solves[1].dict # EmptyDict )
           => Len(hist[p].sent) = 2
        /\ ( /\ Returned(p)
             /\ Len(hist[p].responses) >= 2
             /\ WellFormed(hist[p].responses[2]) )
           => /\ gc[p].exit = "ok"
              /\ gc[p].result = ExtractCompetitions(hist[p].responses[2].body).result
              /\ Len(hist[p].sent) = 2
              /\ Len(hist[p].responses) = 2

C4_Witness ==
    /\ StoredRejected(1)
    /\ gc[1].pc = "done"
    /\ Len(hist[1].responses) = 2
    /\ WellFormed(hist[1].responses[2])
    /\ gc[1].exit = "ok"
    /\ Len(gc[1].result) = 2
    /\ Fresh(hist[1].sent[2])
    /\ "cf_clearance" \in DOMAIN hist[1].sent[2]

\* every response received was a 403
AlwaysForbidden(p) ==
    \A i \in DOMAIN hist[p].responses : IsForbidden(hist[p].responses[i])

\* every invocation of the solver returned a non-empty credential set
SolverAlwaysMints(p) ==
    \A i \in DOMAIN hist[p].solves :
        hist[p].solves[i].outcome = "returned" /\ hist[p].solves[i].dict # EmptyDict

\* C5 as stated - Exhaustion after repeated rejection: when every HTTP
\* response is a 403 and the solver always mints a non-empty credential
\* set, get_competitions returns the empty list after exactly 2 HTTP
\* attempts and cookies.json has been removed exactly twice.
C5_AsStated ==
    \A p \in Procs :
      (Returned(p) /\ AlwaysForbidden(p) /\ SolverAlwaysMints(p))
      => /\ Len(hist[p].sent) = 2
         /\ hist[p].removed = 2
         /\ gc[p].result = <<>>
         /\ gc[p].exit = "exhausted"

\* no load step of the invocation raised
NoLoadRaised(p) ==
    \A i \in DOMAIN hist[p].loads : hist[p].loads[i].outcome # "raised"

\* C5 holds of every run in which the load step of get_cookies did not
\* raise (see C7): the exhaustion itself is as the claim says, and never
\* more than 2 attempts are made.
C5_UnlessLoadRaises ==
    \A p \in Procs :
      /\ Len(hist[p].sent) <= max_retries
      /\ (Returned(p) /\ AlwaysForbidden(p) /\ SolverAlwaysMints(p) /\ NoLoadRaised(p))
         => /\ Len(hist[p].sent) = 2
            /\ hist[p].removed = 2
            /\ gc[p].result = <<>>
            /\ gc[p].exit = "exhausted"

HoldsClearance(file) ==
    /\ file.kind = "list"
    /\ \A i \in DOMAIN file.entries : file.entries[i].t = "cookie"
    /\ \E i \in DOMAIN file.entries : file.entries[i].name = "cf_clearance"

\* C7 as stated - Corrupt credential file tolerance: whenever cookies.json
\* is absent, not JSON, JSON of the wrong shape or without cf_clearance,
\* the load step of get_cookies falls through to the refresh and does not
\* raise.
C7_AsStated ==
    \A p \in Procs :
      \A i \in DOMAIN hist[p].loads :
        ~HoldsClearance(hist[p].loads[i].file) => hist[p].loads[i].outcome = "refresh"

\* what holds of the load step: JSON that is not a list of mappings (a
\* number, a non-empty object, a list with an entry that is not a mapping
\* before any mapping without 'name') makes it raise TypeError; every other
\* file without usable credentials falls through to the refresh.
C7_RaisesOnlyTypeError ==
    \A p \in Procs :
      \A i \in DOMAIN hist[p].loads :
        LET l == hist[p].loads[i] IN
        /\ HoldsClearance(l.file) => l.outcome = "loaded"
        /\ l.outcome = "raised" => LoadCookies(l.file).exc = "TypeError"

\* C8 as stated - Challenge-solve failure is absorbed: every invocation of
\* the solver that fails (launch, page creation, navigation, timeout, file
\* write) returns the empty credential set and raises nothing.
C8_AsStated ==
    \A p \in Procs :
      \A i \in DOMAIN hist[p].solves :
        /\ hist[p].solves[i].outcome # "raised"
        /\ hist[p].solves[i].stage # "done" => hist[p].solves[i].dict = EmptyDict

\* what holds of the solver: failures from the navigation on are absorbed,
\* the ones before the try statement (launch, page) are raised
C8_AbsorbedInsideTry ==
    \A p \in Procs :
      \A i \in DOMAIN hist[p].solves :
        LET v == hist[p].solves[i] IN
        /\ v.stage \in {"navigate", "save"} => (v.outcome = "absorbed" /\ v.dict = EmptyDict)
        /\ v.stage \in {"launch", "page"} => v.outcome = "raised"

\* the answer of /competitions/sync to a fetch that succeeded with no items
ZeroResultsResponse ==
    [code |-> 404, success |-> FALSE,
     message |-> "No competitions found or API call failed",
     count |-> 0, competitions |-> <<>>]

\* the fetch ended without a parsed list of events
FetchFailed(p) == gc[p].exit # "ok"

\* C10 as stated - The endpoint reports failure distinctly from zero
\* results: its response to a failed fetch differs from its response to a
\* fetch that succeeded and found no items.
C10_AsStated ==
    \A p \in Procs :
      (gc[p].pc = "done" /\ FetchFailed(p)) => gc[p].response # ZeroResultsResponse

\* what holds of the endpoint: a fetch that succeeded with no items and
\* every failed fetch are answered with the same response
C10_SameResponse ==
    \A p \in Procs :
      (gc[p].pc = "done" /\ (FetchFailed(p) \/ gc[p].result = <<>>))
      => gc[p].response = ZeroResultsResponse

(***************************************************************************)
(* Properties of concurrent invocations (under SpecConcurrent).            *)
(***************************************************************************)
\* cookies.json holds exactly the credential set d
FileHolds(file, d) ==
    /\ file.kind = "list"
    /\ ConvertCookies(file.entries, EmptyDict) = [exc |-> "none", dict |-> d]

\* the credential set invocation p sent last
LastSent(p) == hist[p].sent[Len(hist[p].sent)]

\* invocation p executes os.remove("cookies.json") in this step
Removes(p) == gc[p].pc = "remove" /\ gc'[p].pc # "remove"

\* C12 as stated - Concurrent invalidate/save calls on cookies.json are
\* serialized: an invocation removes only the credential set it was itself
\* rejected with, never one the other invocation has saved since, and
\* neither os.remove nor open ever acts on a file the other invocation
\* deleted after the existence check.
C12_AsStated ==
    /\ [][\A p \in Procs :
            Removes(p) => /\ gc'[p].pc # "returned"
                          /\ FileHolds(cookie_file, LastSent(p))]_vars
    /\ [](\A p \in Procs :
            \A i \in DOMAIN hist[p].loads :
                hist[p].loads[i].file.kind = "absent"
                => hist[p].loads[i].outcome = "refresh")

(***************************************************************************)
(* Further properties of get_cookies, of the solver and of                 *)
(* get_competitions (under Spec).                                          *)
(***************************************************************************)
\* invocation p is inside _refresh_cookies_with_playwright, past the launch
InSolver(p) == gc[p].pc \in {"page", "navigate", "save"}

\* C13 as stated - Guaranteed browser teardown: once the solver has launched
\* the browser, browser.close() is executed on every exit path of
\* _refresh_cookies_with_playwright: outside the solver every browser that
\* was launched has been closed.
C13_AsStated ==
    \A p \in Procs :
      ~InSolver(p) => /\ hist[p].closed = hist[p].launched
                      /\ gc[p].browser # "open"

\* C14 as stated - Valid-credential invariant: every credential set sent
\* with an HTTP request holds the clearance token cf_clearance (the values
\* of the model, generations of tokens, are all non-empty strings).
C14_AsStated ==
    \A p \in Procs :
      \A i \in DOMAIN hist[p].sent : "cf_clearance" \in DOMAIN hist[p].sent[i]

\* the last load step of invocation p
LastLoad(p) == hist[p].loads[Len(hist[p].loads)]

\* C18 as stated - Credential caching: get_cookies goes on to the solver
\* if and only if the stored credential set is empty (file absent, corrupt,
\* or without cf_clearance); a stored set with cf_clearance is returned as
\* the file holds it, and the file is left as it was.
C18_AsStated ==
    \A p \in Procs :
      /\ \A i \in DOMAIN hist[p].loads :
           LET l == hist[p].loads[i] IN
           /\ (l.outcome = "refresh") <=> ~HoldsClearance(l.file)
           /\ (l.outcome = "loaded") <=> HoldsClearance(l.file)
      /\ (gc[p].pc = "check" /\ hist[p].loads # <<>> /\ LastLoad(p).outcome = "loaded")
         => /\ FileHolds(LastLoad(p).file, gc[p].cookies)
            /\ cookie_file = LastLoad(p).file

\* the return statements of get_competitions
ReturnStatements ==
    {"no_cookies", "ok", "unexpected_structure", "request_error", "json_error",
     "unexpected_error", "exhausted"}

\* C21 - get_competitions never propagates an exception: whatever the
\* outcome of credential loading, challenge solving, the HTTP call, the
\* status check, the parsing and the extraction, control never leaves it
\* by an exception; an exception raised by the load step or by the solver
\* ends the call with the empty list; every return yields a list, empty on
\* every path but the successful one, within at most 2 loop iterations.
C21_NeverPropagates ==
    \A p \in Procs :
      /\ gc[p].pc # "raised"
      /\ gc[p].attempt <= max_retries
      /\ Len(hist[p].sent) <= max_retries
      /\ \A i \in DOMAIN hist[p].loads :
           hist[p].loads[i].outcome = "raised"
           => (Returned(p) /\ gc[p].exit = "unexpected_error" /\ i = Len(hist[p].loads))
      /\ \A i \in DOMAIN hist[p].solves :
           hist[p].solves[i].outcome = "raised"
           => (Returned(p) /\ gc[p].exit = "unexpected_error" /\ i = Len(hist[p].solves))
      /\ Returned(p)
         => /\ gc[p].exit \in ReturnStatements
            /\ gc[p].result \in Seq([id : {JStr("a"), JStr("b")},
                                     name : {JStr("n1"), JStr("n2")},
                                     startDate : {JStr("d1"), JStr("d2"), JNull}])
            /\ gc[p].exit # "ok" => gc[p].result = <<>>

C21_Witness ==
    /\ gc[1].pc = "done"
    /\ gc[1].exit = "unexpected_error"
    /\ Len(hist[1].sent) = 1
    /\ IsForbidden(hist[1].responses[1])
    /\ Len(hist[1].solves) = 1
    /\ hist[1].solves[1].outcome = "raised"
    /\ gc[1].result = <<>>

\* the solver returned, with or without an exception absorbed, the empty set
YieldedEmpty(v) == v.outcome \in {"returned", "absorbed"} /\ v.dict = EmptyDict

\* C22 - No request without credentials: when the solver yields the empty
\* credential set, get_competitions returns its failure result at once: no
\* HTTP request is issued on that attempt, and no further attempt or solver
\* invocation is made.
C22_NoRequestWithoutCredentials ==
    \A p \in Procs :
      \A i \in DOMAIN hist[p].solves :
        YieldedEmpty(hist[p].solves[i])
        => /\ i = Len(hist[p].solves)
           /\ Len(hist[p].sent) = gc[p].attempt
           /\ \A j \in DOMAIN hist[p].sent : hist[p].sent[j] # EmptyDict
           /\ gc[p].pc \in {"check", "returned", "done"}
           /\ Returned(p) => (gc[p].exit = "no_cookies" /\ gc[p].result = <<>>)

C22_Witness ==
    /\ gc[1].pc = "done"
    /\ gc[1].exit = "no_cookies"
    /\ gc[1].attempt = 1
    /\ Len(hist[1].sent) = 1
    /\ Len(hist[1].solves) = 1
    /\ hist[1].solves[1] = Solve("returned", "done", EmptyDict)

(***************************************************************************)
(* Further properties of fetch_all_participants (C11 under SpecFetchTwice,  *)
(* the others under SpecFetch).                                            *)
(***************************************************************************)
\* C11 - Determinism: with the same arguments, an unchanging remote data
\* set and stable credentials, a second run of fetch_all_participants
\* returns the item sequence the first returned and issues the same sequence
\* of page requests.
C11_Determinism ==
    (prev_run.taken /\ fpc = "done")
    => /\ fresult = prev_run.result
       /\ requested = prev_run.requested

C11_Witness ==
    /\ prev_run.taken
    /\ fpc = "done"
    /\ remote.terminal = HttpBadJson(200)
    /\ Len(fresult) >= 3
    /\ Len(requested) = 3

\* C15 as stated - Each page request goes through the authenticated client:
\* a page request answered 403 is retried, after the credential is
\* invalidated and refreshed, within the bound of 2 attempts, before
\* pagination terminates: the page that met the 403 is requested twice.
C15_AsStated ==
    (fpc = "done" /\ remote.stopAt < max_pages /\ IsForbidden(remote.terminal))
    => /\ Len(requested) = remote.stopAt + max_retries
       /\ requested[Len(requested)] = remote.stopAt
       /\ requested[Len(requested) - 1] = remote.stopAt

\* a successful response whose parsed body, a mapping, lacks the item list
\* at some level of data.data.participantList: the key is absent, or the
\* value under 'data' or 'data.data' is not a mapping
MissingPath(r) ==
    /\ r.t = "http" /\ ResponseOk(r) /\ r.parses
    /\ IsObj(r.body)
    /\ \/ "data" \notin DOMAIN r.body.fields
       \/ ~IsObj(r.body.fields["data"])
       \/ "data" \notin DOMAIN r.body.fields["data"].fields
       \/ ~IsObj(r.body.fields["data"].fields["data"])
       \/ "participantList" \notin DOMAIN r.body.fields["data"].fields["data"].fields

\* C16 as stated - A missing nested path is an empty list, not an error:
\* a successful response that lacks the item list at any level of the path
\* ends the run through the exhausted branch, with the items accumulated so
\* far, and not through an error branch.
C16_AsStated ==
    (fpc = "done" /\ remote.stopAt < max_pages /\ MissingPath(remote.terminal))
    => /\ fexit = "exhausted"
       /\ fresult = ConcatPages(remote.stopAt)

\* C17 - Strictly sequential pages: whatever the responses, the indices
\* requested are 0, 1, 2, ... with no gap and no repetition, index k+1 is
\* requested only after page k returned a non-empty list, and no index
\* >= max_pages is requested: at most max_pages requests are made.
C17_StrictlySequential ==
    /\ requested = Indices(Len(requested))
    /\ Len(requested) <= max_pages
    /\ \A i \in DOMAIN requested :
         /\ requested[i] < max_pages
         /\ i > 1 => /\ requested[i - 1] < remote.stopAt
                      /\ SizeOf(remote.sz, requested[i - 1]) > 0

C17_Witness ==
    /\ fpc = "done"
    /\ remote.terminal = Http(500, JNull)
    /\ requested = <<0, 1, 2, 3, 4>>
    /\ fexit = "not_ok"

\* the completion reason of a run that left the loop through `branch`
CompletionReason(branch) ==
    CASE branch = "exhausted" -> "exhausted"
      [] branch = "limit" -> "safety-limit-reached"
      [] OTHER -> "error"

ExitBranches == {"exhausted", "limit", "not_ok", "network", "json", "unexpected"}

\* C19 as stated - The result carries a completion reason: the value a run
\* returns differs from the value returned, for the same accumulated items,
\* by a run that ended for another reason (exhausted, error, safety limit).
C19_AsStated ==
    fpc = "done"
    => \A b \in ExitBranches :
         CompletionReason(b) # CompletionReason(fexit)
         => ReturnValue(all_participants, b) # fresult

\* s is an initial segment of t
IsPrefix(s, t) == Len(s) <= Len(t) /\ SubSeq(t, 1, Len(s)) = s

\* C20 - Accumulator invariant: whenever page index p is requested,
\* 0 <= p < max_pages and the accumulated list is the concatenation of the
\* item lists of pages 0..p-1, each of them non-empty; within a call the
\* accumulated list is only ever extended.
C20_AccumulatorInvariant ==
    [][ /\ requested' # requested /\ fpc = "loop"
           => /\ requested' = Append(requested, page_no)
              /\ 0 <= page_no /\ page_no < max_pages
              /\ all_participants = ConcatPages(page_no)
              /\ page_no <= remote.stopAt
              /\ \A k \in 0..(page_no - 1) : SizeOf(remote.sz, k) > 0
        /\ fpc = "loop" => IsPrefix(all_participants, all_participants')
      ]_vars

C20_Witness ==
    /\ fpc = "loop"
    /\ page_no = 3
    /\ remote.sz = 2
    /\ Len(all_participants) = 6
    /\ requested = <<0, 1, 2>>

(***************************************************************************)
(* Properties of save_competitions (under SpecSave).                       *)
(***************************************************************************)
\* a call has just repeated the argument of the committed call before it
RepeatedCall ==
    /\ save_tick' # save_tick
    /\ save_tick # 0
    /\ save_committed
    /\ save_last' = save_last

\* no two rows of the table carry the same id
OneRowPerId ==
    \A i, j \in DOMAIN db : db[i].id = db[j].id => i = j

\* no two rows of the table carry the same id, rows with a NULL id aside
OneRowPerNonNullId ==
    \A i, j \in DOMAIN db : (db[i].id = db[j].id /\ db[i].id # JNull) => i = j

\* every record of the batch carries an id (comp.get('id') is not None)
AllHaveIds(comps) == \A i \in DOMAIN comps : comps[i].id # JNull

\* C9 as stated - Idempotent upsert: for any sequence of records, a second
\* save_competitions with the same sequence leaves the table as the first
\* left it, and the table never holds two rows with the same id.
C9_AsStated ==
    /\ [][RepeatedCall => db' = db]_vars
    /\ []OneRowPerId

\* C9 amended - Idempotent upsert for records that carry an id: a second
\* save_competitions with the same sequence of records, each with an id that
\* is not None, leaves the table as the first left it, and the table never
\* holds two rows with the same non-NULL id.
C9_IdempotentUpsert ==
    /\ [][(RepeatedCall /\ AllHaveIds(save_last)) => db' = db]_vars
    /\ []OneRowPerNonNullId

C9_Witness ==
    /\ save_repeated
    /\ save_committed
    /\ Len(save_last) = 2
    /\ AllHaveIds(save_last)
    /\ save_last[1].id = save_last[2].id
    /\ save_last[1].name # save_last[2].name
    /\ Len(db) = 2

====
